---- MODULE Spec2Model ----
(***************************************************************************)
(* Model of ppt_to_pdf_lo.py: batch conversion of PPT/PPTX files to PDF    *)
(* through a headless LibreOffice process.                                 *)
(*                                                                         *)
(* Text is modelled as a sequence of one-character strings, so that the    *)
(* operations the program applies to text (str(Path(..)), Path.suffix,     *)
(* str.lower, Path.with_suffix, str.strip) are computed, not assumed.      *)
(* An optional value (None or a string) is <<>> or <<s>>.                  *)
(***************************************************************************)
EXTENDS Integers, Sequences, FiniteSets, TLC

VARIABLES
    pc,          \* position of main(): "start","resolve","collect","loop","summary","done","exit"
    fs,          \* the file system below the working area: set of [path, kind]
    folder,      \* args.folder, already expanded/resolved: a path (sequence of names)
    recursive,   \* args.recursive
    user_path,   \* args.soffice: <<>> (None) or <<text>>
    present,     \* the executable candidates that exist on disk (set of texts)
    which,       \* shutil.which: [soffice |-> opt text, exe |-> opt text]
    soffice,     \* result of find_soffice: <<>> before / on failure, else <<text>>
    files,       \* result of collect_files, in directory-listing order
    idx,         \* number of loop iterations of main() completed
    ok,          \* main(): ok
    fail,        \* main(): fail
    results,     \* the (success, info) pair convert_file returned per iteration
    calls,       \* the functions / external process invocations made, in order
    out,         \* lines printed on stdout and stderr, in order
    exitCode     \* <<>> while running, <<n>> once the process has ended

vars == <<pc, fs, folder, recursive, user_path, present, which, soffice,
          files, idx, ok, fail, results, calls, out, exitCode>>

None == <<>>
Some(x) == <<x>>

(***************************************************************************)
(* Text helpers                                                            *)
(***************************************************************************)
RECURSIVE Join(_)
\* "/".join(parts)
Join(parts) ==
    IF parts = <<>> THEN <<>>
    ELSE IF Len(parts) = 1 THEN parts[1]
    ELSE parts[1] \o <<"/">> \o Join(Tail(parts))

KeepPart(c) == c # <<>> /\ c # <<".">>

RECURSIVE SplitParts(_, _)
\* pathlib's parsing of a POSIX path: split on "/", drop empty and "." parts
SplitParts(s, cur) ==
    IF s = <<>> THEN (IF KeepPart(cur) THEN <<cur>> ELSE <<>>)
    ELSE IF Head(s) = "/"
         THEN (IF KeepPart(cur) THEN <<cur>> ELSE <<>>) \o SplitParts(Tail(s), <<>>)
         ELSE SplitParts(Tail(s), Append(cur, Head(s)))

RECURSIVE LeadingSlashes(_)
LeadingSlashes(s) ==
    IF s = <<>> \/ Head(s) # "/" THEN 0 ELSE 1 + LeadingSlashes(Tail(s))

\* str(Path(s)): the normalised text of a path
PathStr(s) ==
    LET n     == LeadingSlashes(s)
        root  == IF n = 2 THEN <<"/", "/">> ELSE IF n >= 1 THEN <<"/">> ELSE <<>>
        parts == SplitParts(s, <<>>)
    IN  IF root = <<>> /\ parts = <<>> THEN <<".">> ELSE root \o Join(parts)

(***************************************************************************)
(* find_soffice                                                            *)
(***************************************************************************)
common_win ==
    <<"C",":","\\","P","r","o","g","r","a","m"," ","F","i","l","e","s","\\",
      "L","i","b","r","e","O","f","f","i","c","e","\\","p","r","o","g","r","a","m","\\",
      "s","o","f","f","i","c","e",".","e","x","e">>

\* Path(p).exists() for an executable candidate: the path the text names is on disk
ExeExists(p, pres) == PathStr(p) \in pres

\* bool(x) of an Optional[str]
Truthy(x) == x # None /\ x[1] # <<>>

\* shutil.which("soffice") or shutil.which("soffice.exe")
WhichFound(w) == IF Truthy(w.soffice) THEN w.soffice ELSE w.exe

\* find_soffice falling back to the bare program name instead of failing
find_soffice_default(up, pres, w) ==
    LET warned == Truthy(up) /\ ~ExeExists(up[1], pres)
        found  == WhichFound(w)
    IN  IF Truthy(up) /\ ExeExists(up[1], pres)
        THEN [ok |-> TRUE, path |-> PathStr(up[1]), warned |-> FALSE]
        ELSE IF ExeExists(common_win, pres)
        THEN [ok |-> TRUE, path |-> PathStr(common_win), warned |-> warned]
        ELSE IF Truthy(found)
        THEN [ok |-> TRUE, path |-> found[1], warned |-> warned]
        ELSE [ok |-> TRUE, path |-> <<"s","o","f","f","i","c","e">>, warned |-> warned]

\* find_soffice(user_path): the path returned, or ok = FALSE for FileNotFoundError;
\* warned: the "Provided soffice path not found" line was printed
find_soffice(up, pres, w) ==
    LET warned == Truthy(up) /\ ~ExeExists(up[1], pres)
        found  == WhichFound(w)
    IN  IF Truthy(up) /\ ExeExists(up[1], pres)
        THEN [ok |-> TRUE, path |-> PathStr(up[1]), warned |-> FALSE]
        ELSE IF ExeExists(common_win, pres)
        THEN [ok |-> TRUE, path |-> PathStr(common_win), warned |-> warned]
        ELSE IF Truthy(found)
        THEN [ok |-> TRUE, path |-> found[1], warned |-> warned]
        ELSE [ok |-> FALSE, path |-> <<>>, warned |-> warned]

(***************************************************************************)
(* Paths and the file system.  A path is a sequence of names; a name is a  *)
(* text.  fs holds the explicit entries; the directories above an entry    *)
(* exist implicitly.                                                       *)
(***************************************************************************)
UpperCase == <<"A","B","C","D","E","F","G","H","I","J","K","L","M",
               "N","O","P","Q","R","S","T","U","V","W","X","Y","Z">>
LowerCase == <<"a","b","c","d","e","f","g","h","i","j","k","l","m",
               "n","o","p","q","r","s","t","u","v","w","x","y","z">>

LowerChar(c) ==
    IF \E i \in 1..26 : UpperCase[i] = c
    THEN LowerCase[CHOOSE i \in 1..26 : UpperCase[i] = c]
    ELSE c

\* str.lower()
lower(s) == [i \in 1..Len(s) |-> LowerChar(s[i])]

\* name.rfind("."), 1-based; 0 when there is no dot
RFindDot(nm) ==
    IF \E i \in 1..Len(nm) : nm[i] = "."
    THEN CHOOSE i \in 1..Len(nm) :
            nm[i] = "." /\ \A j \in (i+1)..Len(nm) : nm[j] # "."
    ELSE 0

\* PurePath.suffix: from the last dot, unless it leads or ends the name
suffix(nm) ==
    LET i == RFindDot(nm)
    IN  IF 1 < i /\ i < Len(nm) THEN SubSeq(nm, i, Len(nm)) ELSE <<>>

parent(p) == SubSeq(p, 1, Len(p) - 1)
name(p) == p[Len(p)]

\* PurePath.stem
stem(nm) == SubSeq(nm, 1, Len(nm) - Len(suffix(nm)))

pdf == <<".","p","d","f">>

\* fpath.with_suffix(".pdf")
with_suffix(p) == Append(parent(p), stem(name(p)) \o pdf)

IsPrefix(a, b) == Len(a) <= Len(b) /\ SubSeq(b, 1, Len(a)) = a

R == <<"r">>
S == <<"s">>
M == <<"m">>

\* every path that names something on disk: the working area, the entries
\* and the directories above them
AllPaths(fsys) ==
    {<<R>>} \cup UNION {{SubSeq(e.path, 1, k) : k \in 1..Len(e.path)} : e \in fsys}

\* Path.exists()
exists(p, fsys) == p \in AllPaths(fsys)

\* Path.is_file()
is_file(p, fsys) == [path |-> p, kind |-> "file"] \in fsys

\* Path.is_dir()
is_dir(p, fsys) == exists(p, fsys) /\ ~is_file(p, fsys)

\* root.glob("*"): the direct children of root
glob(root, fsys) ==
    {p \in AllPaths(fsys) : Len(p) = Len(root) + 1 /\ IsPrefix(root, p)}

\* root.rglob("*"): the descendants of root at every depth
rglob(root, fsys) ==
    {p \in AllPaths(fsys) : Len(p) > Len(root) /\ IsPrefix(root, p)}

exts == {<<".","p","p","t">>, <<".","p","p","t","x">>}

\* collect_files without the lower(): the extension compared as written
collect_files_cased(root, rec, fsys) ==
    IF rec
    THEN {p \in rglob(root, fsys) : is_file(p, fsys) /\ suffix(name(p)) \in exts}
    ELSE {p \in glob(root, fsys) : is_file(p, fsys) /\ suffix(name(p)) \in exts}

\* collect_files with the recursive flag ignored
collect_files_flat(root, rec, fsys) ==
    {p \in glob(root, fsys) : is_file(p, fsys) /\ lower(suffix(name(p))) \in exts}

\* collect_files(root, recursive): the entries of the returned list; their
\* order is the directory-listing order, chosen where the list is built
collect_files(root, rec, fsys) ==
    IF rec
    THEN {p \in rglob(root, fsys) : is_file(p, fsys) /\ lower(suffix(name(p))) \in exts}
    ELSE {p \in glob(root, fsys) : is_file(p, fsys) /\ lower(suffix(name(p))) \in exts}

\* the lists a directory listing of the set can yield
Listings(set) ==
    {l \in [1..Cardinality(set) -> set] : \A i, j \in DOMAIN l : i # j => l[i] # l[j]}

(***************************************************************************)
(* convert_file                                                            *)
(***************************************************************************)
Whitespace == {" ", "\n", "\t", "\r"}

RECURSIVE lstrip(_)
lstrip(s) == IF s # <<>> /\ Head(s) \in Whitespace THEN lstrip(Tail(s)) ELSE s

RECURSIVE rstrip(_)
rstrip(s) ==
    IF s # <<>> /\ s[Len(s)] \in Whitespace THEN rstrip(SubSeq(s, 1, Len(s) - 1)) ELSE s

\* str.strip()
strip(s) == rstrip(lstrip(s))

\* what the external program leaves on disk: with o.writes it writes
\* <input-basename>.pdf into the --outdir directory
RunSoffice(outdir, fpath, fsys, o) ==
    IF o.launched /\ o.writes
    THEN fsys \cup {[path |-> Append(outdir, stem(name(fpath)) \o pdf), kind |-> "file"]}
    ELSE fsys

\* convert_file judging by the exit status instead of the output file
convert_file_rc(fpath, fsAfter, o) ==
    IF o.launched
    THEN [ok  |-> o.rc = 0,
          msg |-> IF strip(o.stdout) # <<>> THEN strip(o.stdout) ELSE strip(o.stderr)]
    ELSE [ok |-> FALSE, msg |-> o.err]

\* convert_file that checks for the output file also after a failed launch
convert_file_nocatch(fpath, fsAfter, o) ==
    IF o.launched
    THEN [ok  |-> exists(with_suffix(fpath), fsAfter),
          msg |-> IF strip(o.stdout) # <<>> THEN strip(o.stdout) ELSE strip(o.stderr)]
    ELSE [ok |-> exists(with_suffix(fpath), fsAfter), msg |-> strip(o.stderr)]

\* convert_file(soffice, fpath), given the outcome o of subprocess.run and the
\* file system it left: the (ok, msg) pair returned
convert_file(fpath, fsAfter, o) ==
    IF o.launched
    THEN [ok  |-> exists(with_suffix(fpath), fsAfter),
          msg |-> IF strip(o.stdout) # <<>> THEN strip(o.stdout) ELSE strip(o.stderr)]
    ELSE [ok |-> FALSE, msg |-> o.err]

(***************************************************************************)
(* Bounds and the inputs drawn from them                                   *)
(***************************************************************************)
MaxEntries == 3      \* explicit entries on disk at start
MaxDepth == 2        \* depth of the deepest directory below the working area

RECURSIVE SubsetsUpTo(_, _)
SubsetsUpTo(U, k) ==
    IF k = 0 THEN {{}}
    ELSE LET prev == SubsetsUpTo(U, k - 1)
         IN  prev \cup {t \cup {x} : t \in prev, x \in U}

\* r, r/s, r/s/s, ...
Dir(d) == <<R>> \o [i \in 1..d |-> S]

A_PPT    == <<"a",".","p","p","t">>
A_PPTX   == <<"a",".","p","p","t","x">>
B_UPPER  == <<"b",".","P","P","T","X">>
C_MIXED  == <<"c",".","P","p","t">>
C_TXT    == <<"c",".","t","x","t">>
A_PDF    == <<"a",".","p","d","f">>
DOTFILE  == <<".","p","p","t","x">>
TRAILDOT == <<"d",".","p","p","t",".">>
E_BAK    == <<"e",".","p","p","t",".","b","a","k">>
F_PPTM   == <<"f",".","p","p","t","m">>
G_PPTX   == <<"g",".","p","p","t","x">>

File(d, nm) == [path |-> Append(d, nm), kind |-> "file"]

CollectNames ==
    {A_PPTX, B_UPPER, C_MIXED, C_TXT, DOTFILE, TRAILDOT, E_BAK, F_PPTM}

\* candidates for the collector: every name in every directory, and a
\* directory that is named like a presentation
CollectUniverse ==
    {File(Dir(d), nm) : d \in 0..MaxDepth, nm \in CollectNames}
        \cup {[path |-> <<R, G_PPTX>>, kind |-> "dir"]}

\* candidates for a whole run
RunUniverse ==
    {File(<<R>>, nm) : nm \in {A_PPT, A_PPTX, B_UPPER, C_TXT, A_PDF}}
        \cup {File(Dir(MaxDepth), B_UPPER)}

Folders == {<<R>>, <<R, S>>, <<M>>, <<R, C_TXT>>}

O_SO     == <<"/","o","/","s","o">>
O_SO_RAW == <<"/","o","/","/","s","o","/">>
CWD_SO   == <<".","/","s","o">>
SO       == <<"s","o">>
X_SO     == <<"/","x","/","s","o">>
U_SOFFICE == <<"/","u","/","s","o","f","f","i","c","e">>
U_SOFFICE_EXE == <<"/","u","/","s","o","f","f","i","c","e",".","e","x","e">>

\* --soffice values: absent, empty, well-formed, unnormalised, relative, missing
UserPaths == {None, Some(<<>>), Some(O_SO), Some(O_SO_RAW), Some(CWD_SO), Some(X_SO)}
\* the executable candidates that may be on disk
ExeCandidates == {O_SO, SO, common_win}
Whiches == [soffice : {None, Some(U_SOFFICE)}, exe : {None, Some(U_SOFFICE_EXE)}]

FindEnvs == [user_path : UserPaths, present : SUBSET ExeCandidates, which : Whiches]
RunEnvs ==
    [user_path : {None, Some(O_SO)}, present : SUBSET {O_SO},
     which : {w \in Whiches : w.exe = None}]

ENOENT == <<"E","N","O","E","N","T">>
STDOUT_OK == <<"o","k","\n">>
STDERR_ERR == <<" ","E","r","r","\n">>
BLANK == <<" ","\n">>

\* the outcomes of one subprocess.run: the launch fails with an exception, or
\* the process completes with an exit status, its output (a report on stdout
\* with status 0, blank stdout and a report on stderr otherwise), and a PDF
\* written or not
Outcomes ==
    {[launched |-> FALSE, rc |-> -1, writes |-> FALSE,
      stdout |-> <<>>, stderr |-> <<>>, err |-> ENOENT]}
    \cup [launched : {TRUE}, rc : {0}, writes : BOOLEAN,
          stdout : {STDOUT_OK}, stderr : {<<>>}, err : {<<>>}]
    \cup [launched : {TRUE}, rc : {1}, writes : BOOLEAN,
          stdout : {BLANK}, stderr : {STDERR_ERR}, err : {<<>>}]

(***************************************************************************)
(* main                                                                    *)
(***************************************************************************)
Begin(at, env, fsys, fld, rec) ==
    /\ pc = at
    /\ fs = fsys
    /\ folder = fld
    /\ recursive = rec
    /\ user_path = env.user_path
    /\ present = env.present
    /\ which = env.which
    /\ soffice = None
    /\ files = <<>>
    /\ idx = 0
    /\ ok = 0
    /\ fail = 0
    /\ results = <<>>
    /\ calls = <<>>
    /\ out = <<>>
    /\ exitCode = None

\* main() is entered with any arguments, on any small file system
Init ==
    \E fsys \in SubsetsUpTo(RunUniverse, MaxEntries), fld \in Folders,
       rec \in BOOLEAN, env \in RunEnvs :
        Begin("start", env, fsys, fld, rec)

\* the folder check without the is_dir() test
CheckFolder_exists ==
    /\ pc = "start"
    /\ IF ~exists(folder, fs)
       THEN /\ out' = Append(out, <<"err", "folder">>)
            /\ pc' = "exit"
            /\ exitCode' = Some(2)
       ELSE /\ pc' = "resolve"
            /\ UNCHANGED <<out, exitCode>>
    /\ UNCHANGED <<fs, folder, recursive, user_path, present, which, soffice,
                   files, idx, ok, fail, results, calls>>

\* lines 70-73: the folder check
CheckFolder ==
    /\ pc = "start"
    /\ IF ~exists(folder, fs) \/ ~is_dir(folder, fs)
       THEN /\ out' = Append(out, <<"err", "folder">>)
            /\ pc' = "exit"
            /\ exitCode' = Some(2)
       ELSE /\ pc' = "resolve"
            /\ UNCHANGED <<out, exitCode>>
    /\ UNCHANGED <<fs, folder, recursive, user_path, present, which, soffice,
                   files, idx, ok, fail, results, calls>>

\* lines 75-79: the executable is resolved, or the run ends with code 3
Resolve ==
    /\ pc = "resolve"
    /\ LET r == find_soffice(user_path, present, which)
           warn == IF r.warned THEN << <<"err", "warn_soffice">> >> ELSE <<>>
       IN  /\ calls' = Append(calls, <<"find_soffice">>)
           /\ IF r.ok
              THEN /\ soffice' = Some(r.path)
                   /\ out' = out \o warn
                   /\ pc' = "collect"
                   /\ UNCHANGED exitCode
              ELSE /\ out' = out \o warn \o << <<"err", "soffice">> >>
                   /\ pc' = "exit"
                   /\ exitCode' = Some(3)
                   /\ UNCHANGED soffice
    /\ UNCHANGED <<fs, folder, recursive, user_path, present, which,
                   files, idx, ok, fail, results>>

\* the collection step without the early exit on an empty list
Collect_noexit ==
    /\ pc = "collect"
    /\ \E l \in Listings(collect_files(folder, recursive, fs)) :
        /\ files' = l
        /\ calls' = Append(calls, <<"collect_files">>)
        /\ out' = Append(out, <<"found", Len(l)>>)
    /\ pc' = "loop"
    /\ ok' = 0
    /\ fail' = 0
    /\ UNCHANGED <<fs, folder, recursive, user_path, present, which, soffice,
                   idx, results, exitCode>>

\* lines 81-89: the files are collected and counted; none ends the run with 0
Collect ==
    /\ pc = "collect"
    /\ \E l \in Listings(collect_files(folder, recursive, fs)) :
        /\ files' = l
        /\ calls' = Append(calls, <<"collect_files">>)
        /\ out' = Append(out, <<"found", Len(l)>>)
        /\ IF Len(l) = 0
           THEN pc' = "exit" /\ exitCode' = Some(0)
           ELSE pc' = "loop" /\ UNCHANGED exitCode
    /\ ok' = 0
    /\ fail' = 0
    /\ UNCHANGED <<fs, folder, recursive, user_path, present, which, soffice,
                   idx, results>>

\* the counters with the failure count bumped on every file
Tally_always(success, k, fl) ==
    IF success THEN [ok |-> k + 1, fail |-> fl + 1] ELSE [ok |-> k, fail |-> fl + 1]

\* lines 93-98: the counters after one result
Tally(success, k, fl) ==
    IF success THEN [ok |-> k + 1, fail |-> fl] ELSE [ok |-> k, fail |-> fl + 1]

\* the loop iteration ending the run on a failed file
Convert_abort ==
    /\ pc = "loop"
    /\ idx < Len(files)
    /\ \E o \in Outcomes :
        LET f       == files[idx + 1]
            outdir  == parent(f)
            cmd     == [exe |-> soffice[1], outdir |-> outdir, input |-> f]
            fsAfter == RunSoffice(outdir, f, fs, o)
            r       == convert_file(f, fsAfter, o)
            t       == Tally(r.ok, ok, fail)
            line    == <<"converting", idx + 1, Len(files), name(f)>>
        IN  /\ fs' = fsAfter
            /\ calls' = Append(calls, <<"subprocess.run", cmd>>)
            /\ results' = Append(results, [file |-> f, ok |-> r.ok, msg |-> r.msg,
                                           outcome |-> o, stale |-> exists(with_suffix(f), fs)])
            /\ ok' = t.ok
            /\ fail' = t.fail
            /\ IF r.ok
               THEN /\ out' = out \o <<line, <<"ok">> >>
                    /\ UNCHANGED <<pc, exitCode>>
               ELSE /\ out' = out \o <<line, <<"failed">>, <<"info", r.msg>> >>
                    /\ pc' = "exit"
                    /\ exitCode' = Some(1)
    /\ idx' = idx + 1
    /\ UNCHANGED <<folder, recursive, user_path, present, which, soffice, files>>

\* lines 90-99: one iteration of the loop, convert_file included
Convert ==
    /\ pc = "loop"
    /\ idx < Len(files)
    /\ \E o \in Outcomes :
        LET f       == files[idx + 1]
            outdir  == parent(f)
            cmd     == [exe |-> soffice[1], outdir |-> outdir, input |-> f]
            fsAfter == RunSoffice(outdir, f, fs, o)
            r       == convert_file(f, fsAfter, o)
            t       == Tally(r.ok, ok, fail)
            line    == <<"converting", idx + 1, Len(files), name(f)>>
        IN  /\ fs' = fsAfter
            /\ calls' = Append(calls, <<"subprocess.run", cmd>>)
            /\ results' = Append(results, [file |-> f, ok |-> r.ok, msg |-> r.msg,
                                           outcome |-> o, stale |-> exists(with_suffix(f), fs)])
            /\ ok' = t.ok
            /\ fail' = t.fail
            /\ IF r.ok
               THEN out' = out \o <<line, <<"ok">> >>
               ELSE out' = out \o <<line, <<"failed">>, <<"info", r.msg>> >>
    /\ idx' = idx + 1
    /\ UNCHANGED <<pc, folder, recursive, user_path, present, which, soffice,
                   files, exitCode>>

\* lines 101-103: the summary line, and main() returns
Summary ==
    /\ pc = "loop"
    /\ idx = Len(files)
    /\ out' = Append(out, <<"done", ok, fail, Len(files)>>)
    /\ pc' = "done"
    /\ exitCode' = Some(0)
    /\ UNCHANGED <<fs, folder, recursive, user_path, present, which, soffice,
                   files, idx, ok, fail, results, calls>>

Next == CheckFolder \/ Resolve \/ Collect \/ Convert \/ Summary

Spec == Init /\ [][Next]_vars

\* find_soffice on every combination of candidates
InitFind ==
    \E env \in FindEnvs : Begin("resolve", env, {}, <<R>>, FALSE)

NextFind == Resolve

SpecFind == InitFind /\ [][NextFind]_vars

\* collect_files on every small tree
InitCollect ==
    \E fsys \in SubsetsUpTo(CollectUniverse, MaxEntries), d \in 0..MaxDepth,
       rec \in BOOLEAN :
        /\ exists(Dir(d), fsys)
        /\ Begin("collect", [user_path |-> None, present |-> {}, which |-> [soffice |-> None, exe |-> None]],
                 fsys, Dir(d), rec)

NextCollect == Collect

SpecCollect == InitCollect /\ [][NextCollect]_vars

(***************************************************************************)
(* Properties                                                              *)
(***************************************************************************)
Range(q) == {q[i] : i \in DOMAIN q}

\* the external process invocations made so far, and the files they were given
RunCalls == SelectSeq(calls, LAMBDA c : c[1] = "subprocess.run")
RunInputs == [i \in 1..Len(RunCalls) |-> RunCalls[i][2].input]

\* the lines of one kind printed so far
Lines(kind) == SelectSeq(out, LAMBDA l : l[1] = kind)

\* the folder given is an existing directory
ValidFolder ==
    \/ folder = <<R>>
    \/ \E e \in fs : Len(e.path) > Len(folder) /\ IsPrefix(folder, e.path)
    \/ [path |-> folder, kind |-> "dir"] \in fs

\* none of the three strategies yields an executable
UserPathExists == user_path # None /\ user_path[1] # <<>> /\ ExeExists(user_path[1], present)
Unresolvable ==
    /\ ~UserPathExists
    /\ common_win \notin present
    /\ which.soffice = None
    /\ which.exe = None

\* two characters are the same letter, whatever their case
SameLetter(a, b) == a = b \/ \E k \in 1..26 : {a, b} = {UpperCase[k], LowerCase[k]}

\* the name ends in a recognized extension: a base, then .ppt or .pptx in any case
Recognized(nm) ==
    \E e \in exts :
        /\ Len(nm) > Len(e)
        /\ \A i \in 1..Len(e) : SameLetter(nm[Len(nm) - Len(e) + i], e[i])

\* the regular files with a recognized extension in the scope of the run
InScope(root, rec) ==
    {e.path : e \in {x \in fs : /\ x.kind = "file"
                                /\ Recognized(x.path[Len(x.path)])
                                /\ IsPrefix(root, x.path)
                                /\ IF rec THEN Len(x.path) > Len(root)
                                          ELSE Len(x.path) = Len(root) + 1}}

\* a file with the input's base name and a .pdf extension is in the input's directory
PdfBeside(f, fsys) ==
    \E p \in AllPaths(fsys) :
        /\ Len(p) = Len(f)
        /\ \A i \in 1..(Len(f) - 1) : p[i] = f[i]
        /\ \E k \in 2..Len(f[Len(f)]) :
            /\ f[Len(f)][k] = "."
            /\ \A j \in (k + 1)..Len(f[Len(f)]) : f[Len(f)][j] # "."
            /\ p[Len(p)] = SubSeq(f[Len(f)], 1, k - 1) \o <<".","p","d","f">>

\* the step is an iteration of the conversion loop
IsConvertStep == pc = "loop" /\ idx' = idx + 1

\* C1: whenever the external invocation completes, convert_file reports success
\* exactly when the PDF with the input's base name exists beside the input after
\* the invocation, whatever the exit status.
C1_SuccessIffPdfExists ==
    [][(IsConvertStep /\ results'[idx'].outcome.launched)
        => (results'[idx'].ok <=> PdfBeside(files[idx'], fs'))]_vars

\* C1 witness: a nonzero status with the PDF present was a success and a zero
\* status with the PDF absent was a failure.
C1_Witness ==
    /\ \E i \in DOMAIN results :
        results[i].outcome.launched /\ results[i].outcome.rc = 1 /\ results[i].ok
    /\ \E i \in DOMAIN results :
        /\ results[i].outcome.launched /\ results[i].outcome.rc = 0 /\ ~results[i].ok
        /\ ~PdfBeside(results[i].file, fs)

\* C2: when the folder does not exist or is not a directory, the run ends with
\* code 2 and neither the resolver nor the collector nor a conversion was called.
C2_BadFolderExits2 ==
    ~ValidFolder =>
        /\ pc \in {"start", "exit"}
        /\ pc = "exit" => exitCode = Some(2)
        /\ calls = <<>>
        /\ files = <<>>
        /\ soffice = None

\* C2 witness: a run on a path that is a regular file has ended.
C2_Witness ==
    /\ pc = "exit"
    /\ [path |-> folder, kind |-> "file"] \in fs
    /\ exitCode = Some(2)

\* C3: with a valid folder and no executable under any strategy the run ends
\* with code 3 and no external process was invoked, whatever the folder holds.
C3_UnresolvedExits3 ==
    (ValidFolder /\ Unresolvable) =>
        /\ pc \in {"start", "resolve", "exit"}
        /\ pc = "exit" => exitCode = Some(3)
        /\ RunCalls = <<>>
        /\ files = <<>>

\* C3 witness: the run ended with code 3 on a folder that holds presentations.
C3_Witness ==
    /\ pc = "exit"
    /\ exitCode = Some(3)
    /\ Unresolvable
    /\ InScope(folder, recursive) # {}

\* C4: find_soffice returns the caller's path as-is when it exists, else the
\* well-known location when it exists, else the search-path hit for soffice,
\* then for soffice.exe, and fails only when none of them is available.
C4_PriorityOrderAsIs ==
    pc # "resolve" =>
        IF UserPathExists THEN soffice = Some(user_path[1])
        ELSE IF common_win \in present THEN soffice = Some(common_win)
        ELSE IF which.soffice # None THEN soffice = which.soffice
        ELSE IF which.exe # None THEN soffice = which.exe
        ELSE pc = "exit" /\ exitCode = Some(3) /\ soffice = None

\* C5: once the loop is entered every collected file is given to the external
\* program exactly once, in collection order, whatever the earlier outcomes, and
\* the run ends with code 0; a run that ended early invoked nothing.
C5_EveryFileOnceInOrder ==
    /\ RunInputs = SubSeq(files, 1, idx)
    /\ idx <= Len(files)
    /\ pc = "loop" => exitCode = None
    /\ pc = "exit" => RunCalls = <<>>
    /\ pc = "done" => idx = Len(files) /\ exitCode = Some(0)

\* C5 witness: a run completed although its first file failed.
C5_Witness ==
    /\ pc = "done"
    /\ Len(files) >= 2
    /\ ~results[1].ok
    /\ RunInputs = files

\* C6 as stated: every run on an existing directory without a recognized file
\* prints the banner with 0 and ends with code 0.
C6_EmptyFolderExits0 ==
    (ValidFolder /\ InScope(folder, recursive) = {} /\ pc = "exit") =>
        /\ exitCode = Some(0)
        /\ out # <<>>
        /\ out[Len(out)] = <<"found", 0>>

\* C6 amended: a run on an existing directory without a recognized file in its
\* scope, whose executable resolves, prints the banner with 0 and ends at once
\* with code 0, without a conversion attempt or a summary line.
C6_EmptyFolderResolvedExits0 ==
    (ValidFolder /\ ~Unresolvable /\ InScope(folder, recursive) = {}) =>
        /\ pc \in {"start", "resolve", "collect", "exit"}
        /\ pc = "exit" =>
            /\ exitCode = Some(0)
            /\ out # <<>>
            /\ out[Len(out)] = <<"found", 0>>
            /\ Len(Lines("found")) = 1
        /\ RunCalls = <<>>
        /\ Lines("done") = <<>>
        /\ Lines("converting") = <<>>

\* C6 witness: a run on a directory that holds only other files has ended.
C6_Witness ==
    /\ pc = "exit"
    /\ exitCode = Some(0)
    /\ fs # {}
    /\ ~Unresolvable

\* C7: collect_files returns, each once, exactly the regular files under the
\* root with extension .ppt or .pptx in any case: the direct children, or with
\* the recursive flag the descendants at every depth.
C7_CollectExact ==
    pc # "collect" =>
        /\ Range(files) = InScope(folder, recursive)
        /\ Len(files) = Cardinality(InScope(folder, recursive))

\* C7 witness: a recursive collection returned an upper-case match nested two
\* levels down and left another entry out.
C7_Witness ==
    /\ pc # "collect"
    /\ recursive
    /\ \E i \in DOMAIN files :
        /\ Len(files[i]) >= Len(folder) + 3
        /\ files[i][Len(files[i])] = B_UPPER
    /\ \E e \in fs : e.path \notin Range(files)

\* C8: in the loop Success + Failed is the number of files processed and at
\* most Total, each processed file adds one to exactly one counter, and the
\* summary line carries Success + Failed = Total = the number collected, with
\* Success the number of successful results.
C8_Counters ==
    /\ [](/\ ok + fail = idx
          /\ idx = Len(results)
          /\ idx <= Len(files)
          /\ ok = Cardinality({i \in DOMAIN results : results[i].ok})
          /\ pc = "done" =>
                /\ out[Len(out)] = <<"done", ok, fail, Len(files)>>
                /\ ok + fail = Len(files)
                /\ Len(files) = Cardinality(InScope(folder, recursive)))
    /\ [][IsConvertStep =>
            \/ ok' = ok + 1 /\ fail' = fail /\ results'[idx'].ok
            \/ ok' = ok /\ fail' = fail + 1 /\ ~results'[idx'].ok]_vars

\* C8 witness: a summary with both counters above zero.
C8_Witness ==
    /\ pc = "done"
    /\ ok >= 1
    /\ fail >= 1

\* C9: the result reported for a file depends only on that file's own
\* invocation and the output it produced: success is reported exactly when the
\* file's own invocation wrote its PDF.
C9_ResultIsOwn ==
    \A i \in DOMAIN results :
        results[i].ok <=> (results[i].outcome.launched /\ results[i].outcome.writes)

\* C10: a launch failure yields a failed result carrying the launch error's
\* text, is counted as failed also when the PDF already exists, and the loop
\* goes on.
C10_LaunchFailureIsData ==
    /\ [](\A i \in DOMAIN results :
            ~results[i].outcome.launched =>
                /\ ~results[i].ok
                /\ results[i].msg = results[i].outcome.err
                /\ pc \in {"loop", "done"})
    /\ [][(IsConvertStep /\ ~results'[idx'].outcome.launched) =>
            /\ fail' = fail + 1
            /\ ok' = ok
            /\ pc' = "loop"
            /\ exitCode' = None
            /\ out'[Len(out')] = <<"info", results'[idx'].outcome.err>>]_vars

\* C10 witness: a launch failed for a file whose PDF was already there, and the
\* next file was converted after it.
C10_Witness ==
    \E i \in DOMAIN results :
        /\ ~results[i].outcome.launched
        /\ results[i].stale
        /\ ~results[i].ok
        /\ i < Len(results)
        /\ results[i + 1].ok
====
